---- MODULE Spec2Model ----
(***************************************************************************)
(* Model of Headerfile.h: the console inventory manager (Item, Inventory,  *)
(* main) and the combat class hierarchy declared above it.                 *)
(***************************************************************************)
EXTENDS Integers, Sequences, FiniteSets, TLC

(***************************************************************************)
(* Bounds of the exploration.                                              *)
(***************************************************************************)
\* number of menu choices explored in one run of main
MaxOps == 3
\* number of rejected entries explored in one re-prompt loop
MaxRetries == 1
\* maxHealth and maxMana the characters are constructed with
MaxHp == 2
MaxMp == 2

(***************************************************************************)
(* Machine arithmetic.                                                     *)
(***************************************************************************)
\* std::numeric_limits<int>::max() for the 32-bit int of the program
INT_MAX == 2147483647
\* 2^24: every integer below it is a float; above it floats get sparse
FloatBase == 16777216
\* number of significand bits of an IEEE-754 binary32 (float)
FloatBits == 24

\* A non-negative integer hi * 2^24 + lo, wide enough for the sums of money.
WideOfInt(n) == [hi |-> n \div FloatBase, lo |-> n % FloatBase]

WideAdd(a, b) ==
    LET lo == a.lo + b.lo
    IN  [hi |-> a.hi + b.hi + (lo \div FloatBase), lo |-> lo % FloatBase]

WideMul(a, k) ==
    LET lo == a.lo * k
    IN  [hi |-> a.hi * k + (lo \div FloatBase), lo |-> lo % FloatBase]

WideLeq(a, b) == a.hi < b.hi \/ (a.hi = b.hi /\ a.lo <= b.lo)

RECURSIVE BitLen(_)
BitLen(n) == IF n = 0 THEN 0 ELSE 1 + BitLen(n \div 2)

\* The float nearest to the exact value a (round to nearest, ties to even):
\* what storing a value into a float, and every float operation, does.
RoundToFloat(a) ==
    IF a.hi = 0 THEN a
    ELSE LET e    == BitLen(a.hi)
             unit == 2 ^ e
             q    == a.hi * (2 ^ (FloatBits - e)) + (a.lo \div unit)
             r    == a.lo % unit
             half == unit \div 2
             up   == r > half \/ (r = half /\ q % 2 = 1)
             q2   == IF up THEN q + 1 ELSE q
         IN  [hi |-> q2 \div (2 ^ (FloatBits - e)),
              lo |-> (q2 % (2 ^ (FloatBits - e))) * unit]

\* float + float
FloatAdd(a, b) == RoundToFloat(WideAdd(a, b))

\* float * int: the int operand is converted to float first
FloatMulInt(p, n) == RoundToFloat(WideMul(RoundToFloat(WideOfInt(n)), p))

\* int + int on a positive right operand.  A sum above INT_MAX is undefined
\* behaviour: the build either wraps it modulo 2^32 or traps.
IntAddOverflows(a, b) == a > INT_MAX - b
IntAddWrapped(a, b) ==
    IF IntAddOverflows(a, b)
    THEN ((a - INT_MAX) - 1) + ((b - INT_MAX) - 1)
    ELSE a + b

(***************************************************************************)
(* Console input.                                                          *)
(***************************************************************************)
Names == {"apple", "Apple"}

IntTok(n) == [kind |-> "int", val |-> n]
JunkTok   == [kind |-> "junk", val |-> 0]
HugeTok   == [kind |-> "huge", val |-> 0]

\* what the user may type at a quantity prompt
QuantityTokens ==
    {JunkTok, HugeTok} \cup {IntTok(n) : n \in {-1, 0, 1, 2, 16777217, INT_MAX}}

\* what the user may type at the price prompt (whole prices)
PriceTokens == {JunkTok} \cup {IntTok(n) : n \in {-1, 0, 1, 2}}

\* std::cin >> int: fails on text that is no number (value 0) and on a number
\* out of range (value clamped)
ReadInt(tok) ==
    CASE tok.kind = "int"  -> [fail |-> FALSE, value |-> tok.val]
      [] tok.kind = "huge" -> [fail |-> TRUE,  value |-> INT_MAX]
      [] OTHER             -> [fail |-> TRUE,  value |-> 0]

\* std::cin >> float
ReadFloat(tok) ==
    CASE tok.kind = "int" -> [fail |-> FALSE, value |-> tok.val]
      [] OTHER            -> [fail |-> TRUE,  value |-> 0]

\* the quantity loop with < in place of <=: 0 is taken
QuantityRejected_ZeroTaken(tok) == ReadInt(tok).fail \/ ReadInt(tok).value < 0

\* the loop conditions of the three re-prompt loops
QuantityRejected(tok) == ReadInt(tok).fail \/ ReadInt(tok).value <= 0
PriceRejected(tok)    == ReadFloat(tok).fail \/ ReadFloat(tok).value < 0

(***************************************************************************)
(* Item and Inventory.                                                     *)
(***************************************************************************)
Item(name, quantity, price) ==
    [name |-> name, quantity |-> quantity, price |-> price]

\* a comparison that never matches
is_match_Never(item, other_name) == FALSE

is_match(item, other_name) == item.name = other_name

\* std::find_if over items with is_match: the first matching position, or
\* Len(s) + 1 for end()
RECURSIVE FindFrom(_, _, _)
FindFrom(s, other_name, i) ==
    IF i > Len(s) THEN Len(s) + 1
    ELSE IF is_match(s[i], other_name) THEN i
    ELSE FindFrom(s, other_name, i + 1)

find_if(s, other_name) == FindFrom(s, other_name, 1)

\* std::vector::erase of one position
erase(s, i) == SubSeq(s, 1, i - 1) \o SubSeq(s, i + 1, Len(s))

set_quantity(s, i, new_quantity) == [s EXCEPT ![i].quantity = new_quantity]

\* remove_item without its test
CanSell_Always(n, current_quantity) == TRUE

\* remove_item's test before the sale
CanSell(n, current_quantity) == n <= current_quantity

VARIABLES
    items,            \* Inventory::items
    total_money,      \* Inventory::total_money (a float)
    pc,               \* where main is: menu, add_quantity, add_quantity_read,
                      \* add_price, add_update, remove_item, remove_sell, exit,
                      \* aborted
                      \* (the locals below are reset when their function returns)
    choice,           \* main's choice
    name,             \* add_item's name
    quantity,         \* add_item's quantity
    price,            \* add_item's price
    item_to_check,    \* sell_item's item_to_check
    item_it,          \* remove_item's item_it
    input_quantity,   \* remove_item's input_quantity
    entered,          \* what was typed at the prompt shown last
    last,             \* outcome of the last completed menu choice
    ops,              \* menu choices made
    health,           \* Character::health of every character
    mana,             \* Character::mana of every character
    effects,          \* temporary modifiers recorded on every character
    act,              \* the activation in progress
    call              \* the last component call and what it returned

invVars == <<items, total_money, pc, choice, name, quantity, price,
             item_to_check, item_it, input_quantity, entered,
             last, ops>>
combatVars == <<health, mana, effects, act, call>>
vars == <<invVars, combatVars>>

\* the combat classes are not instantiated by main
NoCombat ==
    /\ health = <<>>
    /\ mana = <<>>
    /\ effects = <<>>
    /\ act = <<>>
    /\ call = <<>>

\* Inventory::Inventory and the locals of main
InventoryInit ==
    /\ items = <<>>
    /\ total_money = WideOfInt(0)
    /\ pc = "menu"
    /\ choice = 0
    /\ name = ""
    /\ quantity = 0
    /\ price = 0
    /\ item_to_check = ""
    /\ item_it = 0
    /\ input_quantity = 0
    /\ entered = <<>>
    /\ last = "none"
    /\ ops = 0

Init == InventoryInit /\ NoCombat

AtMenu == pc = "menu" /\ ops < MaxOps

\* main case 1, add_item up to the name
MenuAdd(nm) ==
    /\ AtMenu
    /\ ops' = ops + 1
    /\ choice' = 1
    /\ name' = nm
    /\ pc' = "add_quantity"
    /\ UNCHANGED <<items, total_money, quantity, price, item_to_check, item_it,
                   input_quantity, entered, last>>
    /\ UNCHANGED combatVars

\* add_item: one entry at the quantity prompt
AddQuantity(tok) ==
    /\ pc = "add_quantity"
    /\ entered' = Append(entered, tok)
    /\ IF QuantityRejected(tok)
       THEN /\ Len(entered) < MaxRetries
            /\ UNCHANGED <<pc, quantity>>
       ELSE /\ quantity' = ReadInt(tok).value
            /\ pc' = "add_quantity_read"
    /\ UNCHANGED <<items, total_money, choice, name, price, item_to_check,
                   item_it, input_quantity, last, ops>>
    /\ UNCHANGED combatVars

\* add_item: the price prompt is shown
PromptPrice ==
    /\ pc = "add_quantity_read"
    /\ pc' = "add_price"
    /\ entered' = <<>>
    /\ UNCHANGED <<items, total_money, choice, name, quantity, price,
                   item_to_check, item_it, input_quantity, last, ops>>
    /\ UNCHANGED combatVars

\* add_item: one entry at the price prompt
AddPrice(tok) ==
    /\ pc = "add_price"
    /\ entered' = Append(entered, tok)
    /\ IF PriceRejected(tok)
       THEN /\ Len(entered) < MaxRetries
            /\ UNCHANGED <<pc, price>>
       ELSE /\ price' = ReadFloat(tok).value
            /\ pc' = "add_update"
    /\ UNCHANGED <<items, total_money, choice, name, quantity, item_to_check,
                   item_it, input_quantity, last, ops>>
    /\ UNCHANGED combatVars

\* add_item after the prompts: merge into the entry of that name, or append
add_item ==
    /\ pc = "add_update"
    /\ LET it == find_if(items, name)
       IN  IF it # Len(items) + 1
           THEN \/ /\ items' = set_quantity(items, it,
                                   IntAddWrapped(items[it].quantity, quantity))
                   /\ pc' = "menu"
                   /\ last' = "add_merge"
                \/ /\ IntAddOverflows(items[it].quantity, quantity)
                   /\ pc' = "aborted"
                   /\ last' = "add_trap"
                   /\ UNCHANGED items
           ELSE /\ items' = Append(items, Item(name, quantity, price))
                /\ pc' = "menu"
                /\ last' = "add_new"
    /\ name' = ""
    /\ quantity' = 0
    /\ price' = 0
    /\ entered' = <<>>
    /\ UNCHANGED <<total_money, choice, item_to_check, item_it, input_quantity,
                   ops>>
    /\ UNCHANGED combatVars

\* main case 2, sell_item on an empty inventory
MenuSellEmpty ==
    /\ AtMenu
    /\ items = <<>>
    /\ ops' = ops + 1
    /\ choice' = 2
    /\ last' = "sell_empty"
    /\ UNCHANGED <<items, total_money, pc, name, quantity, price, item_to_check,
                   item_it, input_quantity, entered>>
    /\ UNCHANGED combatVars

\* main case 2, sell_item up to the call of remove_item
sell_item(nm) ==
    /\ AtMenu
    /\ items # <<>>
    /\ ops' = ops + 1
    /\ choice' = 2
    /\ item_to_check' = nm
    /\ LET it == find_if(items, nm)
       IN  IF it # Len(items) + 1
           THEN /\ item_it' = it
                /\ pc' = "remove_item"
                /\ UNCHANGED last
           ELSE /\ last' = "sell_not_found"
                /\ UNCHANGED <<item_it, pc>>
    /\ UNCHANGED <<items, total_money, name, quantity, price, input_quantity,
                   entered>>
    /\ UNCHANGED combatVars

\* remove_item: one entry at the prompt
RemoveQuantity(tok) ==
    /\ pc = "remove_item"
    /\ entered' = Append(entered, tok)
    /\ IF QuantityRejected(tok)
       THEN /\ Len(entered) < MaxRetries
            /\ UNCHANGED <<pc, input_quantity>>
       ELSE /\ input_quantity' = ReadInt(tok).value
            /\ pc' = "remove_sell"
    /\ UNCHANGED <<items, total_money, choice, name, quantity, price,
                   item_to_check, item_it, last, ops>>
    /\ UNCHANGED combatVars

\* remove_item after the prompt: the sale
remove_item ==
    /\ pc = "remove_sell"
    /\ LET item             == items[item_it]
           current_quantity == item.quantity
           money_earned     == FloatMulInt(item.price, input_quantity)
           sold             == set_quantity(items, item_it,
                                            current_quantity - input_quantity)
       IN  IF CanSell(input_quantity, current_quantity)
           THEN /\ total_money' = FloatAdd(total_money, money_earned)
                /\ IF sold[item_it].quantity = 0
                   THEN /\ items' = erase(sold, item_it)
                        /\ last' = "sold_out"
                   ELSE /\ items' = sold
                        /\ last' = "sold"
           ELSE /\ last' = "sell_too_many"
                /\ UNCHANGED <<items, total_money>>
    /\ pc' = "menu"
    /\ item_to_check' = ""
    /\ item_it' = 0
    /\ input_quantity' = 0
    /\ entered' = <<>>
    /\ UNCHANGED <<choice, name, quantity, price, ops>>
    /\ UNCHANGED combatVars

\* main case 3
list_items ==
    /\ AtMenu
    /\ ops' = ops + 1
    /\ choice' = 3
    /\ last' = "list"
    /\ UNCHANGED <<items, total_money, pc, name, quantity, price, item_to_check,
                   item_it, input_quantity, entered>>
    /\ UNCHANGED combatVars

\* main default: any other number, or 0 when no number was typed
MenuInvalid(c) ==
    /\ AtMenu
    /\ ops' = ops + 1
    /\ choice' = c
    /\ last' = "invalid"
    /\ UNCHANGED <<items, total_money, pc, name, quantity, price, item_to_check,
                   item_it, input_quantity, entered>>
    /\ UNCHANGED combatVars

\* main case 4
MenuExit ==
    /\ pc = "menu"
    /\ pc' = "exit"
    /\ choice' = 4
    /\ last' = "exit"
    /\ UNCHANGED <<items, total_money, name, quantity, price, item_to_check,
                   item_it, input_quantity, entered, ops>>
    /\ UNCHANGED combatVars

Next ==
    \/ \E nm \in Names : MenuAdd(nm)
    \/ \E tok \in QuantityTokens : AddQuantity(tok)
    \/ PromptPrice
    \/ \E tok \in PriceTokens : AddPrice(tok)
    \/ add_item
    \/ MenuSellEmpty
    \/ \E nm \in Names : sell_item(nm)
    \/ \E tok \in QuantityTokens : RemoveQuantity(tok)
    \/ remove_item
    \/ list_items
    \/ \E c \in {0, 5} : MenuInvalid(c)
    \/ MenuExit

Spec == Init /\ [][Next]_vars

(***************************************************************************)
(* The combat classes.  Headerfile.h declares them without bodies; the     *)
(* bodies below follow the design document.                                *)
(***************************************************************************)
Chars == {"hero", "ogre"}

\* amounts passed to the components, some of them above the maximum
Amounts == 0 .. (MaxHp + 1)
ManaAmounts == 0 .. (MaxMp + 1)

HealthComponent(kind, maxHp) ==
    [kind |-> kind, currentHealth |-> maxHp, maxHealth |-> maxHp]

ManaComponent(kind, maxResource) ==
    [kind |-> kind, currentMana |-> maxResource, maxMana |-> maxResource]

\* takeDamage without the floor
StandardTakeDamage_NoFloor(h, amount) ==
    [h EXCEPT !.currentHealth = @ - amount]

\* StandardHealth::takeDamage: subtract, floored at 0
StandardTakeDamage(h, amount) ==
    [h EXCEPT !.currentHealth = IF amount >= @ THEN 0 ELSE @ - amount]

\* ArmoredHealth::takeDamage: the damages left by the reduction, which is not
\* specified: any amount from none to all of it
ArmoredReduced(amount) == 0 .. amount

\* the health records takeDamage(amount) may leave
takeDamage(h, amount) ==
    IF h.kind = "ArmoredHealth"
    THEN {StandardTakeDamage(h, d) : d \in ArmoredReduced(amount)}
    ELSE {StandardTakeDamage(h, amount)}

heal(h, amount) ==
    [h EXCEPT !.currentHealth =
        IF @ + amount > h.maxHealth THEN h.maxHealth ELSE @ + amount]

isAlive(h) == h.currentHealth > 0

\* consumeMana refusing an amount equal to what is left
consumeMana_Strict(m, amount) ==
    IF amount < m.currentMana
    THEN [ret |-> TRUE, mana |-> [m EXCEPT !.currentMana = @ - amount]]
    ELSE [ret |-> FALSE, mana |-> m]

\* ArcaneMana::consumeMana and RageEnergy::consumeMana
consumeMana(m, amount) ==
    IF amount <= m.currentMana
    THEN [ret |-> TRUE, mana |-> [m EXCEPT !.currentMana = @ - amount]]
    ELSE [ret |-> FALSE, mana |-> m]

\* ArcaneMana::regenerateMana and RageEnergy::regenerateMana
regenerateMana(m, amount) ==
    [m EXCEPT !.currentMana =
        IF @ + amount > m.maxMana THEN m.maxMana ELSE @ + amount]

Ability(nm, kind, cost, duration) ==
    [name |-> nm, kind |-> kind, resourceCost |-> cost, duration |-> duration]

\* Character::abilities, the same four for every character
abilities ==
    << Ability("Slash", "MeleeAttack", 1, 0),
       Ability("Firebolt", "SpellCast", 2, 0),
       Ability("Shield", "Buff", 1, 2),
       Ability("Curse", "Debuff", 2, 1) >>

\* the names useAbility is called with; no ability is named Fireball
AbilityNames == {"Slash", "Firebolt", "Shield", "Curse", "Fireball"}

\* Character::findAbility: the position of the first ability of that name,
\* 0 for nullptr
RECURSIVE FindAbilityFrom(_, _)
FindAbilityFrom(abilityName, i) ==
    IF i > Len(abilities) THEN 0
    ELSE IF abilities[i].name = abilityName THEN i
    ELSE FindAbilityFrom(abilityName, i + 1)

\* a lookup that falls back to the first ability
findAbility_Fallback(abilityName) ==
    IF FindAbilityFrom(abilityName, 1) = 0 THEN 1
    ELSE FindAbilityFrom(abilityName, 1)

findAbility(abilityName) == FindAbilityFrom(abilityName, 1)

\* the modifier Buff::apply and Debuff::apply record on the target
Effect(ability) == [ability |-> ability.name, duration |-> ability.duration]

Idle(res) == [pc |-> "idle", caster |-> "", target |-> "", ability |-> 0,
              result |-> res]

Called(op, who, amount, abilityName, ret) ==
    [op |-> op, who |-> who, amount |-> amount, name |-> abilityName,
     ret |-> ret]

\* two characters, one of each health and mana variant
InitCombat ==
    /\ InventoryInit
    /\ health = [c \in Chars |->
                   HealthComponent(IF c = "hero" THEN "StandardHealth"
                                   ELSE "ArmoredHealth", MaxHp)]
    /\ mana = [c \in Chars |->
                   ManaComponent(IF c = "hero" THEN "ArcaneMana"
                                 ELSE "RageEnergy", MaxMp)]
    /\ effects = [c \in Chars |-> {}]
    /\ act = Idle("none")
    /\ call = Called("none", "", 0, "", TRUE)

\* HealthComponent::takeDamage called on c
TakeDamage(c, amount) ==
    /\ act.pc = "idle"
    /\ \E h \in takeDamage(health[c], amount) :
          health' = [health EXCEPT ![c] = h]
    /\ call' = Called("takeDamage", c, amount, "", TRUE)
    /\ UNCHANGED <<mana, effects, act>>
    /\ UNCHANGED invVars

\* HealthComponent::heal called on c
Heal(c, amount) ==
    /\ act.pc = "idle"
    /\ health' = [health EXCEPT ![c] = heal(@, amount)]
    /\ call' = Called("heal", c, amount, "", TRUE)
    /\ UNCHANGED <<mana, effects, act>>
    /\ UNCHANGED invVars

\* ManaComponent::consumeMana called on c
ConsumeMana(c, amount) ==
    /\ act.pc = "idle"
    /\ LET r == consumeMana(mana[c], amount)
       IN  /\ mana' = [mana EXCEPT ![c] = r.mana]
           /\ call' = Called("consumeMana", c, amount, "", r.ret)
    /\ UNCHANGED <<health, effects, act>>
    /\ UNCHANGED invVars

\* ManaComponent::regenerateMana called on c
RegenerateMana(c, amount) ==
    /\ act.pc = "idle"
    /\ mana' = [mana EXCEPT ![c] = regenerateMana(@, amount)]
    /\ call' = Called("regenerateMana", c, amount, "", TRUE)
    /\ UNCHANGED <<health, effects, act>>
    /\ UNCHANGED invVars

\* Character::useAbility: look the name up, then activate what was found
useAbility(c, abilityName, target) ==
    /\ act.pc = "idle"
    /\ LET a == findAbility(abilityName)
       IN  /\ call' = Called("useAbility", c, 0, abilityName, a # 0)
           /\ IF a = 0
              THEN act' = Idle("AbilityNotFound")
              ELSE act' = [pc |-> "consume", caster |-> c, target |-> target,
                           ability |-> a, result |-> "none"]
    /\ UNCHANGED <<health, mana, effects>>
    /\ UNCHANGED invVars

\* activate going on to its effect whatever consumeMana returned
ActivateConsume_Unchecked ==
    /\ act.pc = "consume"
    /\ LET cost == abilities[act.ability].resourceCost
           r    == consumeMana(mana[act.caster], cost)
       IN  /\ mana' = [mana EXCEPT ![act.caster] = r.mana]
           /\ call' = Called("consumeMana", act.caster, cost, "", r.ret)
           /\ act' = [act EXCEPT !.pc = "effect"]
    /\ UNCHANGED <<health, effects>>
    /\ UNCHANGED invVars

\* Ability::activate, step 1: the resource check
ActivateConsume ==
    /\ act.pc = "consume"
    /\ LET cost == abilities[act.ability].resourceCost
           r    == consumeMana(mana[act.caster], cost)
       IN  /\ mana' = [mana EXCEPT ![act.caster] = r.mana]
           /\ call' = Called("consumeMana", act.caster, cost, "", r.ret)
           /\ act' = IF r.ret THEN [act EXCEPT !.pc = "effect"]
                     ELSE Idle("InsufficientResource")
    /\ UNCHANGED <<health, effects>>
    /\ UNCHANGED invVars

\* TargetSelection::selectTargets: some of the live characters
selectTargets == SUBSET {c \in Chars : isAlive(health[c])}

\* DamageCalculator::calculateDamage: the formula is not specified
calculateDamage == Amounts

\* Ability::activate, steps 2 to 4: targets, then damage or apply
ActivateEffect ==
    /\ act.pc = "effect"
    /\ \E targets \in selectTargets :
          IF act.target \notin targets
          THEN /\ call' = Called("selectTargets", act.caster, 0, "", FALSE)
               /\ UNCHANGED <<health, effects>>
          ELSE IF abilities[act.ability].kind \in {"MeleeAttack", "SpellCast"}
          THEN /\ \E amount \in calculateDamage :
                    /\ \E h \in takeDamage(health[act.target], amount) :
                          health' = [health EXCEPT ![act.target] = h]
                    /\ call' = Called("takeDamage", act.target, amount, "",
                                      TRUE)
               /\ UNCHANGED effects
          ELSE /\ effects' = [effects EXCEPT ![act.target] =
                                 @ \cup {Effect(abilities[act.ability])}]
               /\ call' = Called("apply", act.target, 0,
                                 abilities[act.ability].name, TRUE)
               /\ UNCHANGED health
    /\ act' = Idle("ok")
    /\ UNCHANGED <<mana>>
    /\ UNCHANGED invVars

\* Buff::remove and Debuff::remove, called when the duration has elapsed
remove(c, e) ==
    /\ act.pc = "idle"
    /\ e \in effects[c]
    /\ effects' = [effects EXCEPT ![c] = @ \ {e}]
    /\ call' = Called("remove", c, 0, e.ability, TRUE)
    /\ UNCHANGED <<health, mana, act>>
    /\ UNCHANGED invVars

NextCombat ==
    \/ \E c \in Chars, amount \in Amounts : TakeDamage(c, amount)
    \/ \E c \in Chars, amount \in Amounts : Heal(c, amount)
    \/ \E c \in Chars, amount \in ManaAmounts : ConsumeMana(c, amount)
    \/ \E c \in Chars, amount \in ManaAmounts : RegenerateMana(c, amount)
    \/ \E c \in Chars, nm \in AbilityNames, t \in Chars : useAbility(c, nm, t)
    \/ ActivateConsume
    \/ ActivateEffect
    \/ \E c \in Chars : \E e \in effects[c] : remove(c, e)

SpecCombat == InitCombat /\ [][NextCombat]_vars

(***************************************************************************)
(* Properties of the inventory manager.                                    *)
(***************************************************************************)
Positions(s) == 1 .. Len(s)
HasEntry(s, nm) == \E i \in Positions(s) : s[i].name = nm

\* x is the sum a + b of the integers a and b > 0
IsSum(x, a, b) == a <= INT_MAX - b /\ x = a + b

\* a quantity and a price as the prompts ask for them
ValidQuantity(tok) == tok.kind = "int" /\ tok.val > 0
ValidPrice(tok) == tok.kind = "int" /\ tok.val >= 0

\* the entry at position i of s, n units fewer, dropped when none are left
AfterSale(s, i, n) ==
    IF s[i].quantity = n THEN erase(s, i)
    ELSE [s EXCEPT ![i].quantity = @ - n]

\* the step add_item takes after its prompts, as C5 has it
AddMerged ==
    pc = "add_update" =>
       IF HasEntry(items, name)
       THEN /\ Len(items') = Len(items)
            /\ \A i \in Positions(items) :
                  IF items[i].name = name
                  THEN /\ items'[i].name = name
                       /\ items'[i].price = items[i].price
                       /\ IsSum(items'[i].quantity, items[i].quantity, quantity)
                  ELSE items'[i] = items[i]
       ELSE items' = Append(items, Item(name, quantity, price))

\* C5: add_item merges a duplicate name by quantity: the entry of the entered
\* name gets its old quantity plus the entered quantity, the number of
\* entries and the other entries are unchanged; a name not in the list is
\* appended as one new entry with the entered name, quantity and price.
C5_AddMergesByQuantity == [][AddMerged]_vars

SoldOutErased ==
    (pc = "remove_sell" /\ input_quantity = items[item_it].quantity)
        => items' = erase(items, item_it)

\* C6: whenever control is back at the menu every entry has quantity >= 1, and
\* a sale that brings an entry to exactly 0 erases that entry and only it.
C6_NoEntryBelowOne ==
    /\ [](pc = "menu" => \A i \in Positions(items) : items[i].quantity >= 1)
    /\ [][SoldOutErased]_vars

\* the entries typed at a prompt: all but the last were invalid, the last one
\* is valid and is the value v
FirstValid(s, v, Valid(_)) ==
    /\ Len(s) >= 1
    /\ \A i \in 1 .. (Len(s) - 1) : ~Valid(s[i])
    /\ Valid(s[Len(s)])
    /\ v = s[Len(s)].val

\* in a prompt loop nothing valid has been typed; after it the local holds the
\* first valid entry
PromptState ==
    /\ pc \in {"add_quantity", "remove_item"}
          => \A i \in Positions(entered) : ~ValidQuantity(entered[i])
    /\ pc = "add_price"
          => \A i \in Positions(entered) : ~ValidPrice(entered[i])
    /\ pc = "add_quantity_read" => FirstValid(entered, quantity, ValidQuantity)
    /\ pc = "remove_sell" => FirstValid(entered, input_quantity, ValidQuantity)
    /\ pc = "add_update" => FirstValid(entered, price, ValidPrice)

\* the prompts change neither the list nor the money, and the values they
\* accepted are the ones add_item stores
PromptStep ==
    /\ pc \in {"add_quantity", "add_quantity_read", "add_price", "remove_item"}
          => items' = items /\ total_money' = total_money
    /\ pc = "add_price" => quantity' = quantity
    /\ (pc = "add_update" /\ ~HasEntry(items, name))
          => /\ items'[Len(items')].quantity = quantity
             /\ items'[Len(items')].price = price

\* C7: a quantity <= 0 or unreadable (in add_item and remove_item) and a price
\* < 0 or unreadable (in add_item) is discarded and asked for again, the list
\* and total_money do not change meanwhile, and the value used is the first
\* entered quantity > 0 and the first entered price >= 0.
C7_RepromptUntilValid == []PromptState /\ [][PromptStep]_vars

\* a price was refused and then the price 0 was taken
C7_Witness == pc = "add_update" /\ Len(entered) > 1 /\ price = 0

SaleStep ==
    /\ (pc = "remove_sell" /\ 1 <= input_quantity
            /\ input_quantity <= items[item_it].quantity)
          => /\ items' = AfterSale(items, item_it, input_quantity)
             /\ total_money' =
                   WideAdd(total_money,
                           WideMul(WideOfInt(input_quantity),
                                   items[item_it].price))
    /\ WideLeq(total_money, total_money')
    /\ total_money' # total_money
          => pc = "remove_sell" /\ input_quantity <= items[item_it].quantity

\* C8: a sale of n units, 1 <= n <= the entry's quantity, takes exactly n from
\* that entry, adds exactly price * n to total_money and leaves the other
\* entries and their order alone; total_money never decreases and only a
\* successful sale changes it.
C8_SaleIsExact == [][SaleStep]_vars

Unsold == items' = items /\ total_money' = total_money

FailedSellStep ==
    /\ (pc = "menu" /\ pc' # "exit" /\ choice' = 2 /\ items = <<>>)
          => pc' = "menu" /\ item_to_check' = item_to_check /\ Unsold
    /\ (pc = "menu" /\ pc' # "exit" /\ choice' = 2 /\ items # <<>>
            /\ ~HasEntry(items, item_to_check'))
          => pc' = "menu" /\ Unsold
    /\ (pc = "remove_sell" /\ input_quantity > items[item_it].quantity)
          => pc' = "menu" /\ Unsold

\* C9: a failed sell attempt leaves the list and total_money as they were: on
\* an empty inventory (no name and no quantity is asked for), on a name that
\* matches no entry (no quantity is asked for) and on a quantity above the
\* entry's quantity.
C9_FailedSellChangesNothing == [][FailedSellStep]_vars

\* more was asked for than the entry holds
C9_Witness == pc = "menu" /\ last = "sell_too_many" /\ items # <<>>

\* C10: no two entries have the same name, so a sell by name acts on the only
\* entry of that name.
C10_NamesAreUnique ==
    /\ \A i, j \in Positions(items) : items[i].name = items[j].name => i = j
    /\ pc \in {"remove_item", "remove_sell"}
          => \A i \in Positions(items) :
                items[i].name = item_to_check <=> i = item_it

\* two entries whose names differ only in case, after a merge into one of them
C10_Witness == Len(items) = 2 /\ last = "add_merge" /\ pc = "menu"

(***************************************************************************)
(* Properties of the combat classes.                                       *)
(***************************************************************************)
Untouched == health' = health /\ mana' = mana /\ effects' = effects

\* in an activation, damage and effects come from the step after the resource
\* check, and a refused check ends it with nothing changed
ActivationStep ==
    /\ (act.pc # "idle" /\ (health' # health \/ effects' # effects))
          => act.pc = "effect"
    /\ (act.pc = "idle" /\ act'.pc # "idle")
          => act'.pc = "consume" /\ Untouched
    /\ (act.pc = "consume"
            /\ abilities[act.ability].resourceCost > mana[act.caster].currentMana)
          => /\ act' = Idle("InsufficientResource")
             /\ call'.op = "consumeMana" /\ ~call'.ret
             /\ Untouched

\* the step that may damage or apply is reached only from a consumeMana of
\* the ability's cost, by the caster, that returned true
PaidFirst ==
    act.pc = "effect"
        => /\ call.op = "consumeMana"
           /\ call.who = act.caster
           /\ call.amount = abilities[act.ability].resourceCost
           /\ call.ret

\* C1: for every ability kind and every caster and target, consumeMana of the
\* resource cost comes before any takeDamage or apply, and when it returns
\* false the activation ends with InsufficientResource and no health, mana or
\* effect of the caster or the target differs from before the attempt.
C1_ResourceCheckFirst == []PaidFirst /\ [][ActivationStep]_vars

\* a Debuff was refused for lack of mana
C1_Witness ==
    /\ act = Idle("InsufficientResource")
    /\ call.op = "consumeMana" /\ ~call.ret /\ call.amount = 2
    /\ mana[call.who].currentMana = 1

ManaInRange ==
    \A c \in Chars : 0 <= mana[c].currentMana
                     /\ mana[c].currentMana <= mana[c].maxMana

ManaStep ==
    /\ (call'.op = "consumeMana" /\ call'.amount > mana[call'.who].currentMana)
          => ~call'.ret /\ mana' = mana
    /\ (call'.op = "consumeMana" /\ call'.amount <= mana[call'.who].currentMana)
          => /\ call'.ret
             /\ mana'[call'.who].currentMana =
                   mana[call'.who].currentMana - call'.amount
    /\ call'.op = "regenerateMana"
          => /\ mana'[call'.who].currentMana <= mana[call'.who].maxMana
             /\ mana'[call'.who].currentMana >= mana[call'.who].currentMana

HealthInRange ==
    \A c \in Chars : /\ 0 <= health[c].currentHealth
                     /\ health[c].currentHealth <= health[c].maxHealth
                     /\ isAlive(health[c]) <=> health[c].currentHealth > 0

HealthStep ==
    /\ call'.op = "takeDamage"
          => health'[call'.who].currentHealth <= health[call'.who].currentHealth
    /\ call'.op = "heal"
          => /\ health'[call'.who].currentHealth <= health[call'.who].maxHealth
             /\ health'[call'.who].currentHealth >= health[call'.who].currentHealth

\* takeDamage of maxHealth or more leaves exactly 0
LethalStep(kinds) ==
    (/\ call'.op = "takeDamage"
     /\ health[call'.who].kind \in kinds
     /\ call'.amount >= health[call'.who].maxHealth)
        => /\ health'[call'.who].currentHealth = 0
           /\ ~isAlive(health'[call'.who])

AnyHealthLethal == LethalStep({"StandardHealth", "ArmoredHealth"})
StandardLethal == LethalStep({"StandardHealth"})

OwnsAbility(abilityName) ==
    \E i \in 1 .. Len(abilities) : abilities[i].name = abilityName

UseAbilityStep ==
    /\ (call'.op = "useAbility" /\ ~OwnsAbility(call'.name))
          => act' = Idle("AbilityNotFound") /\ ~call'.ret /\ Untouched
    /\ (call'.op = "useAbility" /\ OwnsAbility(call'.name))
          => /\ act'.pc = "consume"
             /\ act'.caster = call'.who
             /\ abilities[act'.ability].name = call'.name
             /\ Untouched

\* the ability being activated is the one the effect step uses
RunsFoundAbility ==
    /\ (act.pc = "effect" /\ effects' # effects)
          => /\ abilities[act.ability].kind \in {"Buff", "Debuff"}
             /\ effects'[act.target] =
                   effects[act.target] \cup {Effect(abilities[act.ability])}
    /\ (act.pc = "effect" /\ health' # health)
          => abilities[act.ability].kind \in {"MeleeAttack", "SpellCast"}
    /\ act.pc = "consume"
          => act'.pc = "idle" \/ act'.ability = act.ability

\* C4: useAbility with a name that matches no owned ability fails with
\* AbilityNotFound and changes no health, mana or effect of caster or target;
\* with a matching name, the ability of that name is what is activated.
C4_UnknownAbilityNoEffect == [][UseAbilityStep /\ RunsFoundAbility]_vars

\* Fireball was asked for after something had already been damaged
C4_Witness ==
    /\ act = Idle("AbilityNotFound")
    /\ call.op = "useAbility" /\ call.name = "Fireball"
    /\ \E c \in Chars : health[c].currentHealth < health[c].maxHealth

====
